---- MODULE Spec2Model ----
(***************************************************************************)
(* Model of the ogmigo client: the pipelined chain-sync session of         *)
(* client.go (New, its writer and reader goroutines, ReadNext, Close) and  *)
(* the version-compatibility decoders of ouroboros/chainsync/types.go.     *)
(***************************************************************************)
EXTENDS Integers, Sequences, FiniteSets, TLC

(* ----------------------------- bounds --------------------------------- *)
\* largest pipeline depth passed to New
MaxPipeline == 2
\* largest number of frames the server side puts on the socket
MaxFrames == 2
\* frames of a session of the streaming specification (fills the frame queue)
MaxStreamFrames == 10
\* largest number of ping frames the peer sends
MaxPings == 1
\* largest number of times the caller cancels a ReadNext context
MaxCancels == 1
\* largest slot number of a point or tip in a decoded payload
MaxSlot == 2
\* largest block height of a tip in a decoded payload
MaxHeight == 1
\* largest low part of a coin or asset amount
MaxAmount == 1

(* ------------------------ program constants --------------------------- *)
\* blocks: make(chan json.RawMessage, 8)
BlocksCap == 8
\* ch: make(chan struct{}, 64)
ChCap == 64

TextMessage == "text"
PingMessage == "ping"

VARIABLES
    mode,        \* which specification the behaviour belongs to
    frameLimit,  \* frames the peer may send in this behaviour
    pipeline,    \* New's pipeline argument
    i,           \* New's pre-load loop counter
    ch,          \* client.ch: number of credits buffered
    blocks,      \* client.blocks: buffered frames, oldest first
    ctxDone,     \* the errgroup context is cancelled
    groupErr,    \* errgroup's first non-nil error
    wpc, werr,   \* writer goroutine: position and return value
    rpc, rerr,   \* reader goroutine: position and return value
    messageType, data, \* reader locals set by conn.ReadMessage
    connClosed,  \* conn.Close() has been called
    inbuf,       \* frames sent by the peer and not yet read
    netIn,       \* inbound direction: "open", "eof", "err"
    netOut,      \* outbound direction: "ok", "err"
    findSent,    \* FindIntersect requests written
    nextSent,    \* RequestNext requests written
    pongSent,    \* pong frames written
    answered,    \* responses the peer has sent
    framesSent,  \* frames (responses and pings) the peer has sent
    pings,       \* ping frames the peer has sent
    received,    \* frames conn.ReadMessage returned, in order
    closePc, closeRet, \* Close: position and the value it returns
    blockedAtClose, \* Close was called while ReadNext waited on an empty queue
    cpc,         \* consumer: "idle", "select" (inside ReadNext), or what the
                 \* last ReadNext returned: "block", "ctxErr"
    readCtxDone, \* the context passed to the current ReadNext is cancelled
    cancels,     \* number of ReadNext contexts the caller cancelled
    delivered,   \* frames ReadNext returned, in order
    callerErrs,  \* errors returned to the caller by ReadNext and Close
    input,       \* what the payload handed to a decoder was built from
    decoder,     \* the decoder applied to the payload, "none" before
    decoded,     \* what the decoder returned
    accessed,    \* the Must* accessor called on the decoded response, and
                 \* what the call ended with
    tipChan,     \* client.tip: number of signals buffered
    fn,          \* the pure function applied to args, "none" before
    args,        \* the arguments drawn for it
    ret          \* what it returned

vars == <<mode, frameLimit, pipeline, i, ch, blocks, ctxDone, groupErr,
          wpc, werr, rpc, rerr, messageType, data, connClosed, inbuf, netIn,
          netOut, findSent, nextSent, pongSent, answered, framesSent, pings,
          received, closePc, closeRet, blockedAtClose, cpc, readCtxDone,
          cancels, delivered, callerErrs, input, decoder, decoded, accessed,
          tipChan, fn, args, ret>>

netVars == <<inbuf, netIn, netOut, answered, framesSent, pings>>
writerVars == <<wpc, werr, findSent, nextSent>>
readerVars == <<rpc, rerr, messageType, data, received, pongSent>>
callerVars == <<closePc, closeRet, blockedAtClose, cpc, readCtxDone, cancels,
                delivered, callerErrs>>
closeVars == <<closePc, closeRet, blockedAtClose>>
decodeVars == <<input, decoder, decoded, accessed>>
pureVars == <<fn, args, ret>>
\* what no step of a session changes
cfgVars == <<mode, frameLimit, pipeline, decodeVars, pureVars>>
sessionVars == <<i, ch, blocks, ctxDone, groupErr, writerVars, readerVars,
                 connClosed, netVars, callerVars, tipChan>>

(* ============== ouroboros/chainsync/types.go: decoders ================ *)
(* A JSON text is modelled by the value it denotes: a string, a number,    *)
(* or an object, i.e. a function from its keys to JSON values.  Absent     *)
(* stands for a key the object does not have.  encoding/json matches keys  *)
(* to struct fields without regard to case, so the untagged fields Point   *)
(* and Tip are written here with the keys "point" and "tip".               *)
JS(s) == [t |-> "string", s |-> s]
JN(n) == [t |-> "number", n |-> n]
JO(f) == [t |-> "object", o |-> f]
Absent == [t |-> "absent"]
\* a nil pointer, a nil interface, an empty json.RawMessage
Nil == [t |-> "nil"]

Get(j, k) == IF k \in DOMAIN j.o THEN j.o[k] ELSE Absent

\* F applied to the value of v: a local variable that is assigned once and
\* then read
Local(v, F(_)) == CHOOSE out \in {F(x) : x \in {v}} : TRUE

\* json.Unmarshal into a uint64 field
UnmarshalUint64(j) ==
    CASE j.t = "absent" -> [err |-> FALSE, v |-> 0]
      [] j.t = "number" -> [err |-> FALSE, v |-> j.n]
      [] OTHER -> [err |-> TRUE, v |-> 0]

\* json.Unmarshal into a string field
UnmarshalString(j) ==
    CASE j.t = "absent" -> [err |-> FALSE, v |-> ""]
      [] j.t = "string" -> [err |-> FALSE, v |-> j.s]
      [] OTHER -> [err |-> TRUE, v |-> ""]

\* json.Unmarshal into a json.RawMessage field
UnmarshalRaw(j) == IF j.t = "absent" THEN Nil ELSE j

\* json.Unmarshal into a pointer field: nil when the key is absent
UnmarshalPtr(j, r) == IF j.t = "absent" THEN [err |-> FALSE, v |-> Nil] ELSE r

\* type TipV5 struct { Slot `json:"slot"`; Hash `json:"hash"`; BlockNo `json:"blockNo"` }
UnmarshalTipV5(j) ==
    IF j.t = "absent"
      THEN [err |-> FALSE, v |-> [Slot |-> 0, Hash |-> "", BlockNo |-> 0]]
    ELSE IF j.t # "object"
      THEN [err |-> TRUE, v |-> [Slot |-> 0, Hash |-> "", BlockNo |-> 0]]
    ELSE LET slot == UnmarshalUint64(Get(j, "slot"))
             hash == UnmarshalString(Get(j, "hash"))
             blockNo == UnmarshalUint64(Get(j, "blockNo"))
         IN [err |-> slot.err \/ hash.err \/ blockNo.err,
             v |-> [Slot |-> slot.v, Hash |-> hash.v, BlockNo |-> blockNo.v]]

\* type Tip struct { Slot `json:"slot"`; ID `json:"id"`; Height `json:"height"` }
UnmarshalTip(j) ==
    IF j.t = "absent"
      THEN [err |-> FALSE, v |-> [Slot |-> 0, ID |-> "", Height |-> 0]]
    ELSE IF j.t # "object"
      THEN [err |-> TRUE, v |-> [Slot |-> 0, ID |-> "", Height |-> 0]]
    ELSE LET slot == UnmarshalUint64(Get(j, "slot"))
             id == UnmarshalString(Get(j, "id"))
             height == UnmarshalUint64(Get(j, "height"))
         IN [err |-> slot.err \/ id.err \/ height.err,
             v |-> [Slot |-> slot.v, ID |-> id.v, Height |-> height.v]]

\* type PointStruct struct { BlockNo `json:"blockNo"`; ID `json:"id"`; Slot `json:"slot"` }
UnmarshalPointStruct(j) ==
    IF j.t # "object"
      THEN [err |-> TRUE, v |-> [BlockNo |-> 0, ID |-> "", Slot |-> 0]]
    ELSE LET blockNo == UnmarshalUint64(Get(j, "blockNo"))
             id == UnmarshalString(Get(j, "id"))
             slot == UnmarshalUint64(Get(j, "slot"))
         IN [err |-> blockNo.err \/ id.err \/ slot.err,
             v |-> [BlockNo |-> blockNo.v, ID |-> id.v, Slot |-> slot.v]]

PointTypeString == 1
PointTypeStruct == 2

\* type Point struct { pointType; pointString; pointStruct *PointStruct }
MkPoint(type, str, struct) ==
    [pointType |-> type, pointString |-> str, pointStruct |-> struct]

\* func (p *Point) UnmarshalJSON(data []byte) error
PointUnmarshalJSON(j) ==
    IF j.t = "string"
      THEN [err |-> FALSE, v |-> MkPoint(PointTypeString, j.s, Nil)]
    ELSE LET ps == UnmarshalPointStruct(j)
         IN IF ps.err THEN [err |-> TRUE, v |-> MkPoint(0, "", Nil)]
            ELSE [err |-> FALSE, v |-> MkPoint(PointTypeStruct, "", ps.v)]

\* json.Unmarshal into a PointV5: the type has no exported field and no
\* UnmarshalJSON, so an object is accepted and nothing of it is kept
UnmarshalPointV5(j) ==
    [err |-> j.t \notin {"absent", "object"}, v |-> MkPoint(0, "", Nil)]

\* type ResultError struct { Code; Message; Data *Tip; ID }
UnmarshalResultError(j) ==
    IF j.t # "object"
      THEN [err |-> TRUE, v |-> Nil]
    ELSE LET code == UnmarshalUint64(Get(j, "code"))
             message == UnmarshalString(Get(j, "message"))
             tip == UnmarshalPtr(Get(j, "data"), UnmarshalTip(Get(j, "data")))
         IN [err |-> code.err \/ message.err \/ tip.err,
             v |-> [Code |-> code.v, Message |-> message.v, Data |-> tip.v,
                    ID |-> UnmarshalRaw(Get(j, "id"))]]

\* the zero ResultFindIntersectionPraos
ZeroResult == [Intersection |-> Nil, Tip |-> Nil, Error |-> Nil, ID |-> Nil]

\* json.Unmarshal(data, &r) with r a ResultFindIntersectionPraos
UnmarshalResultFindIntersectionPraos(j) ==
    IF j.t # "object"
      THEN [err |-> TRUE, v |-> ZeroResult]
    ELSE LET point == UnmarshalPtr(Get(j, "intersection"),
                                   PointUnmarshalJSON(Get(j, "intersection")))
             tip == UnmarshalPtr(Get(j, "tip"), UnmarshalTip(Get(j, "tip")))
             error == UnmarshalPtr(Get(j, "error"),
                                   UnmarshalResultError(Get(j, "error")))
         IN [err |-> point.err \/ tip.err \/ error.err,
             v |-> [Intersection |-> point.v, Tip |-> tip.v, Error |-> error.v,
                    ID |-> UnmarshalRaw(Get(j, "id"))]]

\* type IntersectionFoundV5 struct { Point *Point; Tip *TipV5 }
UnmarshalIntersectionFoundV5(j) ==
    IF j.t # "object"
      THEN [err |-> TRUE, v |-> Nil]
    ELSE LET point == UnmarshalPtr(Get(j, "point"), PointUnmarshalJSON(Get(j, "point")))
             tip == UnmarshalPtr(Get(j, "tip"), UnmarshalTipV5(Get(j, "tip")))
         IN [err |-> point.err \/ tip.err,
             v |-> [Point |-> point.v, Tip |-> tip.v]]

\* type IntersectionNotFoundV5 struct { Tip *TipV5 }
UnmarshalIntersectionNotFoundV5(j) ==
    IF j.t # "object"
      THEN [err |-> TRUE, v |-> Nil]
    ELSE LET tip == UnmarshalPtr(Get(j, "tip"), UnmarshalTipV5(Get(j, "tip")))
         IN [err |-> tip.err, v |-> [Tip |-> tip.v]]

\* json.Unmarshal(data, &r5) with r5 a ResultFindIntersectionV5
UnmarshalResultFindIntersectionV5(j) ==
    IF j.t # "object"
      THEN [err |-> TRUE, v |-> [IntersectionFound |-> Nil, IntersectionNotFound |-> Nil]]
    ELSE LET found == UnmarshalPtr(Get(j, "IntersectionFound"),
                         UnmarshalIntersectionFoundV5(Get(j, "IntersectionFound")))
             notFound == UnmarshalPtr(Get(j, "IntersectionNotFound"),
                         UnmarshalIntersectionNotFoundV5(Get(j, "IntersectionNotFound")))
         IN [err |-> found.err \/ notFound.err,
             v |-> [IntersectionFound |-> found.v, IntersectionNotFound |-> notFound.v]]

\* what a decoder call ends with: it returns nil ("ok"), returns an error, or
\* panics on a nil pointer; c is the value the receiver then holds
Outcome(status, c) == [status |-> status, c |-> c]

\* the tip the legacy branch builds from a TipV5
TipFromV5(tip5) == [Height |-> tip5.BlockNo, ID |-> tip5.Hash, Slot |-> 0]

\* func (c *CompatibleResultFindIntersection) UnmarshalJSON(data []byte) error
CompatibleResultFindIntersectionUnmarshalJSON(c, bytes) ==
    Local(UnmarshalResultFindIntersectionPraos(bytes), LAMBDA r :
    Local(UnmarshalResultFindIntersectionV5(bytes), LAMBDA r5 :
       IF ~r.err /\ r.v.Tip # Nil THEN Outcome("ok", r.v)
       ELSE IF r5.err THEN Outcome("error", c)
       ELSE IF r5.v.IntersectionFound # Nil
         THEN IF r5.v.IntersectionFound.Tip = Nil
                THEN Outcome("panic", c)
                ELSE Outcome("ok",
                       [Intersection |-> r5.v.IntersectionFound.Point,
                        Tip |-> TipFromV5(r5.v.IntersectionFound.Tip),
                        Error |-> Nil,
                        ID |-> Nil])
       ELSE IF r5.v.IntersectionNotFound # Nil
         \* reads r5.IntersectionFound.Tip, and r5.IntersectionFound is nil here
         THEN Outcome("panic", c)
       ELSE Outcome("ok", c)))

\* type Block struct: of a block only the fields of its point are kept
UnmarshalBlock(j) ==
    IF j.t # "object"
      THEN [err |-> TRUE, v |-> Nil]
    ELSE LET id == UnmarshalString(Get(j, "id"))
             height == UnmarshalUint64(Get(j, "height"))
             slot == UnmarshalUint64(Get(j, "slot"))
         IN [err |-> id.err \/ height.err \/ slot.err,
             v |-> [ID |-> id.v, Height |-> height.v, Slot |-> slot.v]]

\* json.Unmarshal(m.Result, &nextBlock) with nextBlock a ResultNextBlockPraos;
\* an empty m.Result is no JSON text
UnmarshalResultNextBlockPraos(j) ==
    IF j.t # "object"
      THEN [err |-> TRUE, v |-> Nil]
    ELSE LET direction == UnmarshalString(Get(j, "intersection"))
             tip == UnmarshalPtr(Get(j, "tip"), UnmarshalTip(Get(j, "tip")))
             block == UnmarshalPtr(Get(j, "block"), UnmarshalBlock(Get(j, "block")))
             point == UnmarshalPtr(Get(j, "point"), PointUnmarshalJSON(Get(j, "point")))
         IN [err |-> direction.err \/ tip.err \/ block.err \/ point.err,
             v |-> [Direction |-> direction.v, Tip |-> tip.v, Block |-> block.v,
                    Point |-> point.v]]

FindIntersectionMethod == "findIntersection"
NextBlockMethod == "nextBlock"

\* the zero ResponsePraos
ZeroResponse ==
    [JsonRpc |-> "", Method |-> "", Result |-> Nil, Error |-> Nil, ID |-> Nil]

\* a value stored in the Result interface, with its dynamic type
Dyn(type, v) == [type |-> type, v |-> v]

\* func (r *ResponsePraos) UnmarshalJSON(b []byte) error
ResponsePraosUnmarshalJSON(r, b) ==
    IF b.t # "object" THEN Outcome("error", r)
    ELSE
    LET jsonrpc == UnmarshalString(Get(b, "jsonrpc"))
        method == UnmarshalString(Get(b, "method"))
        r1 == [r EXCEPT !.JsonRpc = jsonrpc.v, !.Method = method.v,
                        !.ID = UnmarshalRaw(Get(b, "id"))]
    IN IF jsonrpc.err \/ method.err THEN Outcome("error", r)
       ELSE IF method.v = FindIntersectionMethod
         THEN Local(CompatibleResultFindIntersectionUnmarshalJSON(ZeroResult, b),
                LAMBDA findIntersection :
                  IF findIntersection.status # "ok"
                    THEN Outcome(findIntersection.status, r1)
                    ELSE Outcome("ok", [r1 EXCEPT !.Result =
                           Dyn("CompatibleResultFindIntersection",
                               findIntersection.c)]))
       ELSE IF method.v = NextBlockMethod
         THEN Local(UnmarshalResultNextBlockPraos(Get(b, "result")),
                LAMBDA nextBlock :
                  IF nextBlock.err
                    THEN Outcome("error", r1)
                    ELSE Outcome("ok", [r1 EXCEPT !.Result =
                           Dyn("ResultNextBlockPraos", nextBlock.v)]))
       ELSE Outcome("error", r1)

\* r.Result.(T): the value when the dynamic type of r.Result is T, else a panic
TypeAssert(result, type) ==
    IF result # Nil /\ result.type = type
      THEN Outcome("ok", result.v)
      ELSE Outcome("panic", Nil)

\* func (r ResponsePraos) MustFindIntersectResult() ResultFindIntersectionPraos
MustFindIntersectResult(r) ==
    IF r.Method # FindIntersectionMethod THEN Outcome("panic", Nil)
    ELSE TypeAssert(r.Result, "ResultFindIntersectionPraos")

\* func (r ResponsePraos) MustNextBlockResult() ResultNextBlockPraos
MustNextBlockResult(r) ==
    IF r.Method # NextBlockMethod THEN Outcome("panic", Nil)
    ELSE TypeAssert(r.Result, "ResultNextBlockPraos")

\* type IntersectionFound struct { Point PointV5; Tip TipV5 }
UnmarshalIntersectionFound(j) ==
    IF j.t # "object"
      THEN [err |-> TRUE, v |-> Nil]
    ELSE LET point == UnmarshalPointV5(Get(j, "point"))
             tip == UnmarshalTipV5(Get(j, "tip"))
         IN [err |-> point.err \/ tip.err, v |-> [Point |-> point.v, Tip |-> tip.v]]

\* type IntersectionNotFound struct { Tip TipV5 }
UnmarshalIntersectionNotFound(j) ==
    IF j.t # "object"
      THEN [err |-> TRUE, v |-> Nil]
    ELSE LET tip == UnmarshalTipV5(Get(j, "tip"))
         IN [err |-> tip.err, v |-> [Tip |-> tip.v]]

\* type ResultV5 struct { IntersectionFound *IntersectionFound;
\*                        IntersectionNotFound *IntersectionNotFound }
UnmarshalResultV5(j) ==
    IF j.t # "object"
      THEN [err |-> TRUE, v |-> Nil]
    ELSE LET found == UnmarshalPtr(Get(j, "IntersectionFound"),
                         UnmarshalIntersectionFound(Get(j, "IntersectionFound")))
             notFound == UnmarshalPtr(Get(j, "IntersectionNotFound"),
                         UnmarshalIntersectionNotFound(Get(j, "IntersectionNotFound")))
         IN [err |-> found.err \/ notFound.err,
             v |-> [IntersectionFound |-> found.v, IntersectionNotFound |-> notFound.v]]

\* json.Unmarshal(data, &r5) with r5 a ResponseV5
UnmarshalResponseV5(j) ==
    IF j.t # "object"
      THEN [err |-> TRUE, v |-> Nil]
    ELSE LET type == UnmarshalString(Get(j, "type"))
             version == UnmarshalString(Get(j, "version"))
             servicename == UnmarshalString(Get(j, "servicename"))
             methodname == UnmarshalString(Get(j, "methodname"))
             result == UnmarshalPtr(Get(j, "result"), UnmarshalResultV5(Get(j, "result")))
         IN [err |-> type.err \/ version.err \/ servicename.err \/ methodname.err
                        \/ result.err,
             v |-> [Type |-> type.v, Version |-> version.v,
                    ServiceName |-> servicename.v, MethodName |-> methodname.v,
                    Result |-> result.v,
                    Reflection |-> UnmarshalRaw(Get(j, "reflection"))]]

\* func (c *CompatibleResponsePraos) UnmarshalJSON(data []byte) error
CompatibleResponsePraosUnmarshalJSON(c, bytes) ==
    Local(ResponsePraosUnmarshalJSON(ZeroResponse, bytes), LAMBDA r :
    Local(UnmarshalResponseV5(bytes), LAMBDA r5 :
    LET c1 == [c EXCEPT !.JsonRpc = "2.0", !.Method = FindIntersectionMethod]
        \* var p Point: p.pointStruct is nil
        p == MkPoint(PointTypeStruct, "", Nil)
    IN IF r.status = "panic" THEN Outcome("panic", c)
       ELSE IF r.status = "ok" /\ r.c.Result # Nil THEN Outcome("ok", r.c)
       ELSE IF r5.err THEN Outcome("ok", c1)
       \* r5.Result.IntersectionFound is read through r5.Result
       ELSE IF r5.v.Result = Nil THEN Outcome("panic", c1)
       ELSE IF r5.v.Result.IntersectionFound # Nil
         THEN LET found == r5.v.Result.IntersectionFound
              IN \* p.pointStruct.Slot = ...Point.pointStruct.Slot
                 IF p.pointStruct = Nil \/ found.Point.pointStruct = Nil
                   THEN Outcome("panic", c1)
                   ELSE Outcome("ok", [c1 EXCEPT
                          !.Result = Dyn("*ResultFindIntersectionPraos",
                              [ZeroResult EXCEPT
                                 !.Intersection = MkPoint(PointTypeStruct, "",
                                     [BlockNo |-> 0,
                                      ID |-> found.Point.pointStruct.Hash,
                                      Slot |-> found.Point.pointStruct.Slot]),
                                 !.Tip = [Slot |-> found.Tip.Slot,
                                          ID |-> found.Tip.Hash,
                                          Height |-> found.Tip.BlockNo]]),
                          !.ID = r5.v.Reflection])
       ELSE IF r5.v.Result.IntersectionNotFound # Nil
         THEN LET found == r5.v.Result.IntersectionFound
                  notFound == r5.v.Result.IntersectionNotFound
              IN \* t.Height = r5.Result.IntersectionFound.Tip.BlockNo
                 IF found = Nil
                   THEN Outcome("panic", c1)
                   ELSE Outcome("ok", [c1 EXCEPT
                          !.Error = [Code |-> 1000,
                                     Message |-> "Intersection not found - Conversion from a v5 Ogmigo call",
                                     Data |-> [Slot |-> notFound.Tip.Slot,
                                               ID |-> notFound.Tip.Hash,
                                               Height |-> found.Tip.BlockNo],
                                     ID |-> Nil],
                          !.ID = r5.v.Reflection])
       ELSE Outcome("ok", [c1 EXCEPT !.ID = r5.v.Reflection])))

(* ------------------------- decoder inputs ----------------------------- *)
Hashes == {"h1", "h2"}

\* a chain point: the named marker or slot and hash
OriginPoint == [kind |-> "string", s |-> "origin", slot |-> 0, hash |-> ""]
Points ==
    {OriginPoint} \cup
    {[kind |-> "struct", s |-> "", slot |-> sl, hash |-> h] :
        sl \in 0..MaxSlot, h \in Hashes}

Tips == [slot : 0..MaxSlot, hash : Hashes, blockNo : 0..MaxHeight]

Forms == {"result", "envelope"}

\* a fixed tip for the payloads that carry none
NoTip == [slot |-> 0, hash |-> "h1", blockNo |-> 0]

\* payloads of the two find-intersection shapes, bare and in their envelope;
\* payloads of neither shape (an object with none of their keys, a number);
\* current envelopes of a next-block response and of another method
Inputs ==
    [shape : {"legacyFound", "currentFound"}, form : Forms, point : Points, tip : Tips]
    \cup [shape : {"legacyNotFound"}, form : Forms, point : {OriginPoint}, tip : Tips]
    \cup [shape : {"neither", "scalar"}, form : Forms, point : {OriginPoint},
          tip : {NoTip}]
    \cup [shape : {"nextBlock", "unknownMethod"}, form : {"envelope"},
          point : {OriginPoint}, tip : Tips]

NoInput == [shape |-> "none", form |-> "result", point |-> OriginPoint,
            tip |-> NoTip]

\* legacy wire shape of a point and a tip
LegacyPoint(p) ==
    IF p.kind = "string" THEN JS(p.s)
    ELSE JO([slot |-> JN(p.slot), hash |-> JS(p.hash)])
LegacyTip(tip) ==
    JO([slot |-> JN(tip.slot), hash |-> JS(tip.hash), blockNo |-> JN(tip.blockNo)])

\* current wire shape of a point and a tip
CurrentPoint(p) ==
    IF p.kind = "string" THEN JS(p.s)
    ELSE JO([slot |-> JN(p.slot), id |-> JS(p.hash)])
CurrentTip(tip) ==
    JO([slot |-> JN(tip.slot), id |-> JS(tip.hash), height |-> JN(tip.blockNo)])

ResultPayload(in) ==
    CASE in.shape = "legacyFound" ->
           JO([IntersectionFound |->
                 JO([point |-> LegacyPoint(in.point), tip |-> LegacyTip(in.tip)])])
      [] in.shape = "legacyNotFound" ->
           JO([IntersectionNotFound |-> JO([tip |-> LegacyTip(in.tip)])])
      [] in.shape = "neither" -> JO([foo |-> JS("bar")])
      [] in.shape = "nextBlock" ->
           JO([direction |-> JS("forward"), tip |-> CurrentTip(in.tip),
               block |-> JO([id |-> JS(in.tip.hash), height |-> JN(in.tip.blockNo),
                             slot |-> JN(in.tip.slot)])])
      [] in.shape = "unknownMethod" -> CurrentTip(in.tip)
      [] OTHER ->
           JO([intersection |-> CurrentPoint(in.point), tip |-> CurrentTip(in.tip)])

Mirror == JO([step |-> JS("INIT")])

\* a method name the response decoder has no case for
OtherMethod == "queryNetwork/tip"

\* the method field of the current envelope of a payload
MethodOf(in) ==
    CASE in.shape = "nextBlock" -> NextBlockMethod
      [] in.shape = "unknownMethod" -> OtherMethod
      [] OTHER -> FindIntersectionMethod

EnvelopePayload(in) ==
    IF in.shape \in {"legacyFound", "legacyNotFound"}
      THEN JO([type |-> JS("jsonwsp/response"), version |-> JS("1.0"),
               servicename |-> JS("ogmios"), methodname |-> JS("FindIntersect"),
               result |-> ResultPayload(in), reflection |-> Mirror])
      ELSE JO([jsonrpc |-> JS("2.0"), method |-> JS(MethodOf(in)),
               result |-> ResultPayload(in), id |-> Mirror])

\* the JSON text handed to the decoder
Payload(in) ==
    IF in.shape = "scalar" THEN JN(0)
    ELSE IF in.form = "result" THEN ResultPayload(in)
    ELSE EnvelopePayload(in)

NotDecoded == Outcome("none", Nil)

\* no accessor has been called
NotAccessed == [fn |-> "none", status |-> "none", v |-> Nil]

DecodeIdle ==
    /\ input = NoInput /\ decoder = "none" /\ decoded = NotDecoded
    /\ accessed = NotAccessed

\* no pure function is applied
PureIdle == fn = "none" /\ args = Nil /\ ret = Nil

(* ============ ouroboros/chainsync/types.go: Point ===================== *)
\* the bytes of the strings drawn for symbolic points; Go compares strings
\* byte by byte
StringBytes(str) ==
    CASE str = "" -> <<>>
      [] str = "a" -> <<97>>
      [] str = "ab" -> <<97, 98>>
      [] str = "b" -> <<98>>
      [] str = "origin" -> <<111, 114, 105, 103, 105, 110>>

\* s > t on byte sequences: at the first position where they differ s has
\* the larger byte, or t ends there
BytesGreater(s, t) ==
    \E k \in 1..Len(s) :
        /\ \A m \in 1..(k - 1) : m <= Len(t) /\ s[m] = t[m]
        /\ k > Len(t) \/ s[k] > t[k]

\* pi.pointString > pj.pointString
StringGreater(str1, str2) == BytesGreater(StringBytes(str1), StringBytes(str2))

\* func (pp Points) Less(i, j int) bool; ix and jx are its i and j
Less(pp, ix, jx) ==
    LET pi == pp[ix]
        pj == pp[jx]
    IN CASE pi.pointType = PointTypeStruct /\ pj.pointType = PointTypeStruct ->
              pi.pointStruct.Slot > pj.pointStruct.Slot
         [] pi.pointType = PointTypeStruct /\ pj.pointType # PointTypeStruct -> TRUE
         [] pi.pointType # PointTypeStruct /\ pj.pointType = PointTypeStruct -> FALSE
         [] OTHER -> StringGreater(pi.pointString, pj.pointString)

\* the zero Point
ZeroPoint == MkPoint(0, "", Nil)

\* a PointStruct written with its omitempty tags: the fields that are not
\* zero, under the names blockNo, id and slot
OmitEmpty(ps) ==
    LET keys == {k \in {"blockNo", "id", "slot"} :
                    \/ k = "blockNo" /\ ps.BlockNo # 0
                    \/ k = "id" /\ ps.ID # ""
                    \/ k = "slot" /\ ps.Slot # 0}
    IN [k \in keys |-> CASE k = "blockNo" -> JN(ps.BlockNo)
                          [] k = "id" -> JS(ps.ID)
                          [] k = "slot" -> JN(ps.Slot)]

\* what an encoder returns: the encoded data, or an error
Encoded(v) == [err |-> FALSE, v |-> v]
EncodeError == [err |-> TRUE, v |-> Nil]

\* func (p Point) MarshalJSON() ([]byte, error)
MarshalJSON(p) ==
    CASE p.pointType = PointTypeString -> Encoded(JS(p.pointString))
      [] p.pointType = PointTypeStruct -> Encoded(JO(OmitEmpty(p.pointStruct)))
      [] OTHER -> EncodeError

\* CBOR data: no bytes at all, the bytes "nil", or an encoded map
CborEmpty == [t |-> "empty"]
CborNil == [t |-> "bNil"]
CborMap(f) == [t |-> "map", o |-> f]

\* cbor.Marshal of a pointCBOR: key 1 holds String unless it is empty, key 2
\* holds Struct unless it is nil
MarshalPointCBOR(v) ==
    LET keys == {k \in {"1", "2"} :
                    \/ k = "1" /\ v.String # ""
                    \/ k = "2" /\ v.Struct # Nil}
    IN CborMap([k \in keys |-> IF k = "1" THEN JS(v.String)
                               ELSE JO(OmitEmpty(v.Struct))])

\* func (p Point) MarshalCBOR() ([]byte, error)
MarshalCBOR(p) ==
    IF p.pointType \in {PointTypeString, PointTypeStruct}
      THEN Encoded(MarshalPointCBOR([String |-> p.pointString,
                                     Struct |-> p.pointStruct]))
      ELSE EncodeError

\* func (p *Point) UnmarshalCBOR(data []byte) error, p the receiver's value
UnmarshalCBOR(p, bytes) ==
    IF bytes.t \in {"empty", "bNil"} THEN [err |-> FALSE, v |-> p]
    ELSE LET str == UnmarshalString(Get(bytes, "1"))
             struct == UnmarshalPtr(Get(bytes, "2"),
                                    UnmarshalPointStruct(Get(bytes, "2")))
         IN IF str.err \/ struct.err THEN [err |-> TRUE, v |-> p]
            ELSE [err |-> FALSE,
                  v |-> MkPoint(IF struct.v # Nil THEN PointTypeStruct
                                ELSE PointTypeString,
                                str.v, struct.v)]

\* a dynamodb.AttributeValue: S a *string, M a map; NoItem is a nil item
AttributeValue(str, map) == [S |-> str, M |-> map]
NoItem == [t |-> "noitem"]

\* func (p Point) MarshalDynamoDBAttributeValue(item *dynamodb.AttributeValue) error
MarshalDynamoDBAttributeValue(p) ==
    CASE p.pointType = PointTypeString ->
           Encoded(AttributeValue(JS(p.pointString), Nil))
      [] p.pointType = PointTypeStruct ->
           Encoded(AttributeValue(Nil, JO(OmitEmpty(p.pointStruct))))
      [] OTHER -> EncodeError

\* func (p *Point) UnmarshalDynamoDBAttributeValue(item *dynamodb.AttributeValue) error
UnmarshalDynamoDBAttributeValue(p, item) ==
    IF item = NoItem THEN [err |-> FALSE, v |-> p]
    ELSE IF item.S # Nil
      THEN [err |-> FALSE, v |-> MkPoint(PointTypeString, item.S.s, Nil)]
    ELSE IF item.M # Nil /\ DOMAIN item.M.o # {}
      THEN LET point == UnmarshalPointStruct(item.M)
           IN IF point.err THEN [err |-> TRUE, v |-> p]
              ELSE [err |-> FALSE, v |-> MkPoint(PointTypeStruct, "", point.v)]
    ELSE [err |-> FALSE, v |-> p]

(* -------------------------- Point inputs ------------------------------ *)
PointStrings == {"", "a", "ab", "b", "origin"}

\* symbolic points, and structured points, the all-zero one among them
PointValues ==
    {MkPoint(PointTypeString, str, Nil) : str \in PointStrings}
    \cup {MkPoint(PointTypeStruct, "", [BlockNo |-> b, ID |-> id, Slot |-> sl]) :
            b \in 0..MaxHeight, id \in {"", "h1"}, sl \in 0..MaxSlot}

Encodings == {"json", "cbor", "dynamodb"}

\* what the encoders produce for the points, and what stands for no point:
\* an empty CBOR payload, the CBOR bytes "nil", a nil attribute
EncodedPoints(encoding) ==
    CASE encoding = "json" -> {MarshalJSON(p).v : p \in PointValues}
      [] encoding = "cbor" ->
           {MarshalCBOR(p).v : p \in PointValues} \cup {CborEmpty, CborNil}
      [] encoding = "dynamodb" ->
           {MarshalDynamoDBAttributeValue(p).v : p \in PointValues} \cup {NoItem}

(* ============ ouroboros/chainsync/types.go: Value algebra ============= *)
\* num.Int holds an integer of any size.  An amount is written
\* hi * 2^64 + lo with lo far inside the 64-bit range, so that sums and
\* differences are those of the two parts.
NumInt(hi, lo) == [hi |-> hi, lo |-> lo]

\* the zero num.Int, which a map returns for a key it does not have
NumZero == NumInt(0, 0)

\* func (i Int) Add(that Int) Int
NumAdd(x, y) == NumInt(x.hi + y.hi, x.lo + y.lo)

\* func (i Int) Sub(that Int) Int
NumSub(x, y) == NumInt(x.hi - y.hi, x.lo - y.lo)

\* func (i Int) Int64() int64: the low 64 bits, the multiples of 2^64 are lost
Int64(x) == x.lo

\* m[k] of a Go map: the zero value when the key is absent
MapGet(m, k) == IF k \in DOMAIN m THEN m[k] ELSE NumZero

\* func Add(a Value, b Value) Value
Add(a, b) ==
    [Coins |-> NumAdd(a.Coins, b.Coins),
     Assets |-> [assetId \in DOMAIN a.Assets \cup DOMAIN b.Assets |->
                   IF assetId \in DOMAIN b.Assets
                     THEN NumAdd(MapGet(a.Assets, assetId), b.Assets[assetId])
                     ELSE a.Assets[assetId]]]

\* Subtract with the amounts of b added instead of subtracted
SubtractAdding(a, b) ==
    [Coins |-> NumSub(a.Coins, b.Coins),
     Assets |-> [assetId \in DOMAIN a.Assets \cup DOMAIN b.Assets |->
                   IF assetId \in DOMAIN b.Assets
                     THEN NumAdd(MapGet(a.Assets, assetId), b.Assets[assetId])
                     ELSE a.Assets[assetId]]]

\* func Subtract(a Value, b Value) Value
Subtract(a, b) ==
    [Coins |-> NumSub(a.Coins, b.Coins),
     Assets |-> [assetId \in DOMAIN a.Assets \cup DOMAIN b.Assets |->
                   IF assetId \in DOMAIN b.Assets
                     THEN NumSub(MapGet(a.Assets, assetId), b.Assets[assetId])
                     ELSE a.Assets[assetId]]]

\* what Enough names in its error when the coin is short
ADA == "ADA"

\* func Enough(have Value, want Value) (bool, error): the returns it can
\* make; the range over want.Assets visits the keys in any order, so any
\* asset that compares short may be the one named
Enough(have, want) ==
    IF Int64(have.Coins) < Int64(want.Coins)
      THEN {[ok |-> FALSE, short |-> ADA]}
    ELSE LET short == {asset \in DOMAIN want.Assets :
                         Int64(MapGet(have.Assets, asset)) < Int64(want.Assets[asset])}
         IN IF short = {} THEN {[ok |-> TRUE, short |-> ""]}
            ELSE {[ok |-> FALSE, short |-> asset] : asset \in short}

(* -------------------------- Value inputs ------------------------------ *)
AssetIDs == {"X", "Y"}

\* amounts inside the 64-bit range (hi = 0) and beyond it (hi = 1)
Amounts == [hi : {0, 1}, lo : 0..MaxAmount]

Values ==
    [Coins : Amounts,
     Assets : UNION {[keys -> Amounts] : keys \in SUBSET AssetIDs}]

(* ------------------------------ New ----------------------------------- *)
\* select { case client.ch <- struct{}{}: default: }
PushCredit(c) == IF c < ChCap THEN c + 1 ELSE c

SessionInit(m, limit, depths) ==
    /\ mode = m
    /\ frameLimit = limit
    /\ pipeline \in depths
    /\ i = 0
    /\ ch = 0
    /\ blocks = <<>>
    /\ ctxDone = FALSE
    /\ groupErr = "nil"
    /\ wpc = "init" /\ werr = "nil"
    /\ rpc = "recv" /\ rerr = "nil"
    /\ messageType = TextMessage /\ data = 0
    /\ connClosed = FALSE
    /\ inbuf = <<>>
    /\ netIn = "open" /\ netOut = "ok"
    /\ findSent = 0 /\ nextSent = 0 /\ pongSent = 0
    /\ answered = 0 /\ framesSent = 0 /\ pings = 0
    /\ received = <<>>
    /\ closePc = "idle" /\ closeRet = "nil" /\ blockedAtClose = FALSE
    /\ cpc = "idle" /\ readCtxDone = FALSE /\ cancels = 0
    /\ delivered = <<>>
    /\ callerErrs = <<>>
    \* tip: make(chan struct{}, 1)
    /\ tipChan = 0

Init == SessionInit("session", MaxFrames, 1..MaxPipeline) /\ DecodeIdle /\ PureIdle

\* New has returned the client to the caller
NewReturned == i = pipeline

\* for i := 0; i < pipeline; i++ { select { case client.ch <- ...: default: } }
NewPreload ==
    /\ i < pipeline
    /\ i' = i + 1
    /\ ch' = PushCredit(ch)
    /\ UNCHANGED <<cfgVars, tipChan, blocks, ctxDone, groupErr, writerVars,
                   readerVars, connClosed, netVars, callerVars>>

(* --------------------------- errgroup --------------------------------- *)
\* errgroup.Group.Go wrapper: the first non-nil error is kept and cancels ctx
GroupErrAfter(err) == IF err # "nil" /\ groupErr = "nil" THEN err ELSE groupErr
CtxDoneAfter(err) == IF err # "nil" THEN TRUE ELSE ctxDone

\* conn.WriteMessage succeeds only on an open connection with a working
\* outbound direction
WriteOk == ~connClosed /\ netOut = "ok"

\* the error a failed conn.WriteMessage returns, by the message written: a
\* write on a connection closed by Close fails with the closed-connection error
WriteErr(what) ==
    IF connClosed THEN "writeClosedErr"
    ELSE CASE what = "find" -> "writeFindErr"
           [] what = "next" -> "writeNextErr"
           [] OTHER -> "pongErr"

\* the reader goroutine has returned
ReaderDone == rpc \in {"eof", "failed", "cancelled"}
\* the writer goroutine has returned
WriterDone == wpc = "done"

(* ----------------------------- writer --------------------------------- *)
WriterReturn(err) ==
    /\ wpc' = "done"
    /\ werr' = err
    /\ groupErr' = GroupErrAfter(err)
    /\ ctxDone' = CtxDoneAfter(err)

\* conn.WriteMessage(websocket.TextMessage, init)
WriterInit ==
    /\ wpc = "init"
    /\ IF WriteOk
         THEN /\ findSent' = findSent + 1
              /\ wpc' = "select"
              /\ UNCHANGED <<werr, groupErr, ctxDone>>
         ELSE /\ WriterReturn(WriteErr("find"))
              /\ UNCHANGED findSent
    /\ UNCHANGED <<cfgVars, tipChan, i, ch, blocks, nextSent, readerVars,
                   connClosed, netVars, callerVars>>

\* case <-ctx.Done(): return nil
WriterCtxDone ==
    /\ wpc = "select"
    /\ ctxDone
    /\ WriterReturn("nil")
    /\ UNCHANGED <<cfgVars, tipChan, i, ch, blocks, findSent, nextSent,
                   readerVars, connClosed, netVars, callerVars>>

\* case <-client.ch:
WriterTakeCredit ==
    /\ wpc = "select"
    /\ ch > 0
    /\ ch' = ch - 1
    /\ wpc' = "next"
    /\ UNCHANGED <<cfgVars, tipChan, i, blocks, ctxDone, groupErr, werr,
                   findSent, nextSent, readerVars, connClosed, netVars,
                   callerVars>>

\* conn.WriteMessage(websocket.TextMessage, next)
WriterNext ==
    /\ wpc = "next"
    /\ IF WriteOk
         THEN /\ nextSent' = nextSent + 1
              /\ wpc' = "select"
              /\ UNCHANGED <<werr, groupErr, ctxDone>>
         ELSE /\ WriterReturn(WriteErr("next"))
              /\ UNCHANGED nextSent
    /\ UNCHANGED <<cfgVars, tipChan, i, ch, blocks, findSent, readerVars,
                   connClosed, netVars, callerVars>>

(* ----------------------------- reader --------------------------------- *)
\* the reader returns: its locals go out of scope
ReaderReturn(at, err) ==
    /\ rpc' = at
    /\ messageType' = TextMessage /\ data' = 0
    /\ rerr' = err
    /\ groupErr' = GroupErrAfter(err)
    /\ ctxDone' = CtxDoneAfter(err)

\* messageType, data, err := conn.ReadMessage(): a frame is returned
ReaderRecvFrame ==
    /\ rpc = "recv"
    /\ ~connClosed
    /\ inbuf # <<>>
    /\ messageType' = Head(inbuf).type
    /\ data' = Head(inbuf).id
    /\ received' = Append(received, Head(inbuf).id)
    /\ inbuf' = Tail(inbuf)
    /\ rpc' = "credit"
    /\ UNCHANGED <<cfgVars, tipChan, i, ch, blocks, ctxDone, groupErr,
                   writerVars, rerr, pongSent, connClosed, netIn, netOut,
                   answered, framesSent, pings, callerVars>>

\* conn.ReadMessage() fails: errors.Is(err, io.EOF) returns nil, any other
\* error is returned
ReaderRecvErr ==
    /\ rpc = "recv"
    /\ \/ connClosed /\ ReaderReturn("failed", "readClosedErr")
       \/ ~connClosed /\ inbuf = <<>> /\ netIn = "eof" /\ ReaderReturn("eof", "nil")
       \/ ~connClosed /\ inbuf = <<>> /\ netIn = "err" /\ ReaderReturn("failed", "readErr")
    /\ UNCHANGED <<cfgVars, tipChan, i, ch, blocks, writerVars, received,
                   pongSent, connClosed, netVars, callerVars>>

\* ReaderCredit with a post to the tip signal: select { case tip <- ...: default: }
ReaderCreditPostingTip ==
    /\ rpc = "credit"
    /\ ch' = PushCredit(ch)
    /\ tipChan' = IF tipChan < 1 THEN tipChan + 1 ELSE tipChan
    /\ rpc' = IF messageType = PingMessage THEN "pong" ELSE "push"
    /\ UNCHANGED <<cfgVars, i, blocks, ctxDone, groupErr, writerVars,
                   rerr, messageType, data, received, pongSent, connClosed,
                   netVars, callerVars>>

\* select { case client.ch <- struct{}{}: default: }
ReaderCredit ==
    /\ rpc = "credit"
    /\ ch' = PushCredit(ch)
    /\ rpc' = IF messageType = PingMessage THEN "pong" ELSE "push"
    /\ UNCHANGED <<cfgVars, tipChan, i, blocks, ctxDone, groupErr, writerVars,
                   rerr, messageType, data, received, pongSent, connClosed,
                   netVars, callerVars>>

\* conn.WriteMessage(websocket.PongMessage, nil)
ReaderPong ==
    /\ rpc = "pong"
    /\ IF WriteOk
         THEN /\ pongSent' = pongSent + 1
              /\ rpc' = "push"
              /\ UNCHANGED <<rerr, groupErr, ctxDone, messageType, data>>
         ELSE /\ ReaderReturn("failed", WriteErr("pong"))
              /\ UNCHANGED pongSent
    /\ UNCHANGED <<cfgVars, tipChan, i, ch, blocks, writerVars, received,
                   connClosed, netVars, callerVars>>

\* select: case <-ctx.Done(): return nil
ReaderCtxDone ==
    /\ rpc = "push"
    /\ ctxDone
    /\ ReaderReturn("cancelled", "nil")
    /\ UNCHANGED <<cfgVars, tipChan, i, ch, blocks, writerVars, received,
                   pongSent, connClosed, netVars, callerVars>>

\* the frame queue accepts a send
BlocksReady(q) == Len(q) < BlocksCap

\* a send that gives up on a full queue and drops the frame
ReaderPushLossy ==
    /\ rpc = "push"
    /\ blocks' = IF Len(blocks) < BlocksCap THEN Append(blocks, data) ELSE blocks
    /\ rpc' = "recv"
    /\ messageType' = TextMessage /\ data' = 0
    /\ UNCHANGED <<cfgVars, tipChan, i, ch, ctxDone, groupErr, writerVars,
                   rerr, received, pongSent, connClosed, netVars, callerVars>>

\* select: case client.blocks <- data; the loop body ends and its locals go
\* out of scope
ReaderPush ==
    /\ rpc = "push"
    /\ BlocksReady(blocks)
    /\ blocks' = Append(blocks, data)
    /\ rpc' = "recv"
    /\ messageType' = TextMessage /\ data' = 0
    /\ UNCHANGED <<cfgVars, tipChan, i, ch, ctxDone, groupErr, writerVars,
                   rerr, received, pongSent, connClosed, netVars, callerVars>>

(* ------------------------ peer and network ---------------------------- *)
\* the peer answers one request it has not answered yet
ServerRespond ==
    /\ ~connClosed /\ netIn = "open"
    /\ answered < findSent + nextSent
    /\ framesSent < frameLimit
    /\ answered' = answered + 1
    /\ framesSent' = framesSent + 1
    /\ inbuf' = Append(inbuf, [id |-> framesSent + 1, type |-> TextMessage])
    /\ UNCHANGED <<cfgVars, tipChan, i, ch, blocks, ctxDone, groupErr,
                   writerVars, readerVars, connClosed, netIn, netOut, pings,
                   callerVars>>

\* the peer sends a ping frame
ServerPing ==
    /\ ~connClosed /\ netIn = "open"
    /\ pings < MaxPings
    /\ framesSent < frameLimit
    /\ pings' = pings + 1
    /\ framesSent' = framesSent + 1
    /\ inbuf' = Append(inbuf, [id |-> framesSent + 1, type |-> PingMessage])
    /\ UNCHANGED <<cfgVars, tipChan, i, ch, blocks, ctxDone, groupErr,
                   writerVars, readerVars, connClosed, netIn, netOut,
                   answered, callerVars>>

\* the peer closes the stream cleanly
ServerEOF ==
    /\ ~connClosed /\ netIn = "open"
    /\ netIn' = "eof"
    /\ UNCHANGED <<cfgVars, tipChan, i, ch, blocks, ctxDone, groupErr,
                   writerVars, readerVars, connClosed, inbuf, netOut,
                   answered, framesSent, pings, callerVars>>

\* the inbound direction fails
NetReadFail ==
    /\ ~connClosed /\ netIn = "open"
    /\ netIn' = "err"
    /\ UNCHANGED <<cfgVars, tipChan, i, ch, blocks, ctxDone, groupErr,
                   writerVars, readerVars, connClosed, inbuf, netOut,
                   answered, framesSent, pings, callerVars>>

\* the outbound direction fails
NetWriteFail ==
    /\ ~connClosed /\ netOut = "ok"
    /\ netOut' = "err"
    /\ UNCHANGED <<cfgVars, tipChan, i, ch, blocks, ctxDone, groupErr,
                   writerVars, readerVars, connClosed, inbuf, netIn, answered,
                   framesSent, pings, callerVars>>

(* ------------------------------ caller -------------------------------- *)
\* the caller cancels the context it passed to New
CancelParent ==
    /\ ~ctxDone
    /\ closePc # "returned"
    /\ ctxDone' = TRUE
    /\ UNCHANGED <<cfgVars, tipChan, i, ch, blocks, groupErr, writerVars,
                   readerVars, connClosed, netVars, callerVars>>

\* Close, first half: c.conn.Close() is evaluated before the deferred Wait
CloseConn ==
    /\ NewReturned
    /\ closePc = "idle"
    /\ connClosed' = TRUE
    /\ closePc' = "wait"
    /\ blockedAtClose' = (cpc = "select" /\ blocks = <<>>)
    /\ UNCHANGED <<cfgVars, tipChan, i, ch, blocks, ctxDone, groupErr,
                   writerVars, readerVars, netVars, closeRet, cpc,
                   readCtxDone, cancels, delivered, callerErrs>>

\* a Wait that returns as soon as the reader has returned
WaitDoneReaderOnly == ReaderDone

\* errgroup.Group.Wait returns once every goroutine of the group has returned
WaitDone == ReaderDone /\ WriterDone

\* Close, second half: the deferred c.group.Wait() runs, its result is
\* dropped, and Close returns what conn.Close() returned: nil or the
\* connection's own close error, whichever the library produced (the value is
\* not observable before Close returns, so it is drawn here)
CloseWait ==
    /\ closePc = "wait"
    /\ WaitDone
    /\ closePc' = "returned"
    /\ ctxDone' = TRUE
    /\ closeRet' \in {"nil", "closeErr"}
    /\ callerErrs' = IF closeRet' # "nil" THEN Append(callerErrs, closeRet')
                     ELSE callerErrs
    /\ UNCHANGED <<cfgVars, tipChan, i, ch, blocks, groupErr, writerVars,
                   readerVars, connClosed, netVars, blockedAtClose, cpc,
                   readCtxDone, cancels, delivered>>

\* the caller calls ReadNext with a fresh context
ReadNextCall ==
    /\ NewReturned
    /\ cpc \in {"idle", "block", "ctxErr"}
    /\ cpc' = "select"
    /\ readCtxDone' = FALSE
    /\ UNCHANGED <<cfgVars, tipChan, i, ch, blocks, ctxDone, groupErr,
                   writerVars, readerVars, connClosed, netVars, closeVars,
                   cancels, delivered, callerErrs>>

\* the caller cancels the context of the ReadNext in progress
CancelRead ==
    /\ cpc = "select"
    /\ ~readCtxDone
    /\ cancels < MaxCancels
    /\ readCtxDone' = TRUE
    /\ cancels' = cancels + 1
    /\ UNCHANGED <<cfgVars, tipChan, i, ch, blocks, ctxDone, groupErr,
                   writerVars, readerVars, connClosed, netVars, closeVars,
                   cpc, delivered, callerErrs>>

\* ReadNext: case <-ctx.Done(): return nil, ctx.Err()
ReadNextCtxDone ==
    /\ cpc = "select"
    /\ readCtxDone
    /\ cpc' = "ctxErr"
    /\ callerErrs' = Append(callerErrs, "ctxErr")
    /\ UNCHANGED <<cfgVars, tipChan, i, ch, blocks, ctxDone, groupErr,
                   writerVars, readerVars, connClosed, netVars, closeVars,
                   readCtxDone, cancels, delivered>>

\* ReadNext: case block := <-c.blocks: return block, nil
ReadNextBlock ==
    /\ cpc = "select"
    /\ blocks # <<>>
    /\ delivered' = Append(delivered, Head(blocks))
    /\ blocks' = Tail(blocks)
    /\ cpc' = "block"
    /\ UNCHANGED <<cfgVars, tipChan, i, ch, ctxDone, groupErr, writerVars,
                   readerVars, connClosed, netVars, closeVars, readCtxDone,
                   cancels, callerErrs>>

Writer == WriterInit \/ WriterCtxDone \/ WriterTakeCredit \/ WriterNext
Reader == ReaderRecvFrame \/ ReaderRecvErr \/ ReaderCredit \/ ReaderPong
            \/ ReaderCtxDone \/ ReaderPush

Next ==
    \/ NewPreload
    \/ WriterInit \/ WriterCtxDone \/ WriterTakeCredit \/ WriterNext
    \/ ReaderRecvFrame \/ ReaderRecvErr \/ ReaderCredit \/ ReaderPong
    \/ ReaderCtxDone \/ ReaderPush
    \/ ServerRespond \/ ServerPing \/ ServerEOF \/ NetReadFail \/ NetWriteFail
    \/ CancelParent \/ CloseConn \/ CloseWait
    \/ ReadNextCall \/ CancelRead \/ ReadNextCtxDone \/ ReadNextBlock

Spec == Init /\ [][Next]_vars

\* The scheduler runs every goroutine that can take a step; the peer, the
\* network and the caller's decisions to call or cancel are under no obligation.
Fairness ==
    /\ WF_vars(NewPreload)
    /\ WF_vars(Writer)
    /\ WF_vars(Reader)
    /\ WF_vars(CloseWait)
    /\ WF_vars(ReadNextCtxDone \/ ReadNextBlock)

FairSpec == Init /\ [][Next]_vars /\ Fairness

\* A session against a peer that streams more frames than the frame queue
\* holds, over a network that does not fail; the caller may cancel the session
\* context and call Close, and does not cancel its ReadNext calls.
StreamInit ==
    SessionInit("stream", MaxStreamFrames, 1..MaxPipeline) /\ DecodeIdle /\ PureIdle

StreamNext ==
    \/ NewPreload
    \/ WriterInit \/ WriterCtxDone \/ WriterTakeCredit \/ WriterNext
    \/ ReaderRecvFrame \/ ReaderRecvErr \/ ReaderCredit \/ ReaderPong
    \/ ReaderCtxDone \/ ReaderPush
    \/ ServerRespond \/ ServerPing
    \/ CancelParent \/ CloseConn \/ CloseWait
    \/ ReadNextCall \/ ReadNextBlock

StreamSpec == StreamInit /\ [][StreamNext]_vars

(* --------------------------- decoder runs ----------------------------- *)
\* no session runs; a payload is drawn and handed to one of the decoders
DecodeInit ==
    /\ SessionInit("decode", 0, {1})
    /\ input \in Inputs
    /\ decoder = "none"
    /\ decoded = NotDecoded
    /\ accessed = NotAccessed
    /\ PureIdle

\* json.Unmarshal(payload, &c) with c a fresh CompatibleResultFindIntersection
DecodeResult ==
    /\ mode = "decode" /\ decoder = "none"
    /\ decoder' = "CompatibleResultFindIntersection"
    /\ decoded' = Local(Payload(input), LAMBDA bytes :
                      CompatibleResultFindIntersectionUnmarshalJSON(ZeroResult, bytes))
    /\ UNCHANGED <<mode, frameLimit, pipeline, input, accessed, pureVars,
                   sessionVars>>

\* json.Unmarshal(payload, &c) with c a fresh CompatibleResponsePraos
DecodeResponse ==
    /\ mode = "decode" /\ decoder = "none"
    /\ decoder' = "CompatibleResponsePraos"
    /\ decoded' = Local(Payload(input), LAMBDA bytes :
                      CompatibleResponsePraosUnmarshalJSON(ZeroResponse, bytes))
    /\ UNCHANGED <<mode, frameLimit, pipeline, input, accessed, pureVars,
                   sessionVars>>

\* json.Unmarshal(payload, &r) with r a fresh ResponsePraos
DecodeResponsePraos ==
    /\ mode = "decode" /\ decoder = "none"
    /\ decoder' = "ResponsePraos"
    /\ decoded' = Local(Payload(input), LAMBDA bytes :
                      ResponsePraosUnmarshalJSON(ZeroResponse, bytes))
    /\ UNCHANGED <<mode, frameLimit, pipeline, input, accessed, pureVars,
                   sessionVars>>

\* a response that ResponsePraos.UnmarshalJSON returned without error
ResponseDecoded ==
    /\ mode = "decode" /\ decoder = "ResponsePraos" /\ decoded.status = "ok"
    /\ accessed = NotAccessed

\* the caller calls r.MustFindIntersectResult() on the decoded response
CallMustFindIntersectResult ==
    /\ ResponseDecoded
    /\ LET out == MustFindIntersectResult(decoded.c)
       IN accessed' = [fn |-> "MustFindIntersectResult", status |-> out.status,
                       v |-> out.c]
    /\ UNCHANGED <<mode, frameLimit, pipeline, input, decoder, decoded, pureVars,
                   sessionVars>>

\* the caller calls r.MustNextBlockResult() on the decoded response
CallMustNextBlockResult ==
    /\ ResponseDecoded
    /\ LET out == MustNextBlockResult(decoded.c)
       IN accessed' = [fn |-> "MustNextBlockResult", status |-> out.status,
                       v |-> out.c]
    /\ UNCHANGED <<mode, frameLimit, pipeline, input, decoder, decoded, pureVars,
                   sessionVars>>

DecodeNext ==
    \/ DecodeResult \/ DecodeResponse \/ DecodeResponsePraos
    \/ CallMustFindIntersectResult \/ CallMustNextBlockResult

DecodeSpec == DecodeInit /\ [][DecodeNext]_vars

(* ----------------------------- Point runs ----------------------------- *)
\* arguments of a call of Less: the slice and the two indexes
LessArgs ==
    {[kind |-> "less", pp |-> <<p1, p2>>, i |-> 1, j |-> 2, encoding |-> "",
      bytes |-> Nil] : p1 \in PointValues, p2 \in PointValues}

\* encoded data handed to a decoder
CodecArgs ==
    UNION {{[kind |-> "codec", pp |-> <<>>, i |-> 0, j |-> 0, encoding |-> e,
             bytes |-> d] : d \in EncodedPoints(e)} : e \in Encodings}

\* no session runs; a pair of points or encoded data is drawn
PointInit ==
    /\ SessionInit("point", 0, {1})
    /\ DecodeIdle
    /\ fn = "none"
    /\ args \in LessArgs \cup CodecArgs
    /\ ret = Nil

\* pp.Less(i, j)
CallLess ==
    /\ mode = "point" /\ fn = "none" /\ args.kind = "less"
    /\ fn' = "Less"
    /\ ret' = Less(args.pp, args.i, args.j)
    /\ UNCHANGED <<mode, frameLimit, pipeline, decodeVars, args, sessionVars>>

\* decode into a fresh Point, then encode the Point
Unmarshal(encoding, bytes) ==
    CASE encoding = "json" -> PointUnmarshalJSON(bytes)
      [] encoding = "cbor" -> UnmarshalCBOR(ZeroPoint, bytes)
      [] encoding = "dynamodb" -> UnmarshalDynamoDBAttributeValue(ZeroPoint, bytes)

Marshal(encoding, p) ==
    CASE encoding = "json" -> MarshalJSON(p)
      [] encoding = "cbor" -> MarshalCBOR(p)
      [] encoding = "dynamodb" -> MarshalDynamoDBAttributeValue(p)

RoundTrip(encoding, bytes) ==
    LET dec == Unmarshal(encoding, bytes)
    IN IF dec.err THEN [status |-> "decodeError", point |-> dec.v, out |-> Nil]
       ELSE LET enc == Marshal(encoding, dec.v)
            IN IF enc.err
                 THEN [status |-> "encodeError", point |-> dec.v, out |-> Nil]
                 ELSE [status |-> "ok", point |-> dec.v, out |-> enc.v]

CallRoundTrip ==
    /\ mode = "point" /\ fn = "none" /\ args.kind = "codec"
    /\ fn' = "RoundTrip"
    /\ ret' = RoundTrip(args.encoding, args.bytes)
    /\ UNCHANGED <<mode, frameLimit, pipeline, decodeVars, args, sessionVars>>

PointNext == CallLess \/ CallRoundTrip

PointSpec == PointInit /\ [][PointNext]_vars

(* ------------------------ value algebra runs -------------------------- *)
\* no session runs; two Values are drawn and handed to the functions
ValueInit ==
    /\ SessionInit("value", 0, {1})
    /\ DecodeIdle
    /\ fn = "none"
    /\ args \in [a : Values, b : Values]
    /\ ret = Nil

\* Subtract(Add(a, b), b)
CallSubtractAdd ==
    /\ mode = "value" /\ fn = "none"
    /\ fn' = "SubtractAdd"
    /\ ret' = Subtract(Add(args.a, args.b), args.b)
    /\ UNCHANGED <<mode, frameLimit, pipeline, decodeVars, args, sessionVars>>

\* Enough(a, b), with a as have and b as want
CallEnough ==
    /\ mode = "value" /\ fn = "none"
    /\ fn' = "Enough"
    /\ ret' \in Enough(args.a, args.b)
    /\ UNCHANGED <<mode, frameLimit, pipeline, decodeVars, args, sessionVars>>

ValueNext == CallSubtractAdd \/ CallEnough

ValueSpec == ValueInit /\ [][ValueNext]_vars

(* ======================= transport properties ========================= *)
\* next-item responses the peer has sent: requests are answered in the order
\* written, and the writer writes FindIntersect first
NextAnswered == IF answered > 0 THEN answered - 1 ELSE 0

\* RequestNext requests written and not yet answered
Outstanding == nextSent - NextAnswered

\* errors of the group that a failing socket caused (not a call of Close)
MidSessionErrs == {"readErr", "writeFindErr", "writeNextErr", "pongErr"}

\* number of times e was returned to the caller
Surfaced(e) == Cardinality({k \in 1..Len(callerErrs) : callerErrs[k] = e})

\* the frame the reader has read and not yet queued
InHand == IF rpc \in {"credit", "pong", "push"} THEN <<data>> ELSE <<>>

IsPrefix(s, t) == Len(s) <= Len(t) /\ SubSeq(t, 1, Len(s)) = s

WriterWriting == wpc \in {"init", "next"}
ReaderWriting == rpc = "pong"

\* C1: the number of RequestNext requests written to the socket and not yet
\* answered by a next-item response never exceeds the pipeline depth.
C1_OutstandingAtMostN == Outstanding <= pipeline

\* C2: once Close has been called while the consumer is blocked in ReadNext
\* on an empty frame queue, that ReadNext eventually returns although the
\* caller never cancels the context it passed (the claim further asks that
\* what it returns be a cancellation).
C2_CloseUnblocksReadNext ==
    (blockedAtClose /\ cpc = "select" /\ blocks = <<>> /\ ~readCtxDone)
        ~> (cpc # "select" \/ readCtxDone)

\* C3: Close closes the socket before it waits, and when Close has returned
\* the reader and the writer goroutine have both returned.
C3_CloseTwoPhase ==
    /\ closePc \in {"wait", "returned"} => connClosed
    /\ closePc = "returned" => ReaderDone /\ WriterDone

C3_Witness == closePc = "returned" /\ ReaderDone /\ WriterDone

\* C4: a mid-session transport error of the session has been returned to the
\* caller exactly once by the time Close has returned.
C4_ErrorSurfacedOnce ==
    (closePc = "returned" /\ groupErr \in MidSessionErrs)
        => Surfaced(groupErr) = 1

\* C5: after a mid-session transport error in either goroutine, both
\* goroutines eventually return.
C5_BothTasksUnwind ==
    (groupErr \in MidSessionErrs) ~> (ReaderDone /\ WriterDone)

\* C6: when the reader meets a clean end-of-stream it returns nil, no error
\* is recorded for the session by that return, and the writer eventually
\* returns too.
C6_CleanEOFEndsSession ==
    /\ [](rpc = "eof" => rerr = "nil")
    /\ (rpc = "eof") ~> WriterDone

\* C7: the frame queue never holds more than its capacity; the frames
\* returned by ReadNext followed by the queued frames are a prefix of the
\* frames read from the socket; and while the session is neither cancelled
\* nor closed every frame read is either delivered, queued, or still held by
\* the reader, exactly once and in the order read.
C7_FramesDeliveredInOrder ==
    /\ Len(blocks) <= BlocksCap
    /\ IsPrefix(delivered \o blocks, received)
    /\ (~ctxDone /\ ~connClosed) => received = delivered \o blocks \o InHand

\* the reader is stalled on a full queue while the consumer has taken frames
C7_Witness ==
    /\ ~ctxDone /\ ~connClosed
    /\ Len(blocks) = BlocksCap /\ rpc = "push"
    /\ Len(delivered) >= 1

\* C8: only the writer goroutine writes to the socket, so the writer and the
\* reader are never inside conn.WriteMessage at the same time.
C8_NoConcurrentWrites == ~(WriterWriting /\ ReaderWriting)

\* the peer answered one-for-one without pings, every response has been
\* consumed and the writer has used up its credits
Quiescent ==
    /\ NewReturned
    /\ pings = 0
    /\ ch = 0 /\ wpc = "select"
    /\ rpc = "recv" /\ inbuf = <<>> /\ blocks = <<>>
    /\ Len(delivered) = answered

\* next-item responses the consumer has taken
NextConsumed == IF Len(delivered) > 0 THEN Len(delivered) - 1 ELSE 0

\* C9: once k next-item responses have been consumed and the writer has used
\* up its credits, exactly N + k RequestNext requests have been written.
C9_RequestsAfterKResponses == Quiescent => nextSent = pipeline + NextConsumed

\* C18: once Close has closed the socket and waits for the goroutines, it
\* eventually returns, whatever the reader and the writer were suspended on
\* and although the caller does nothing more.
C18_CloseEventuallyReturns == (closePc = "wait") ~> (closePc = "returned")

\* client.Tip(): the channel it returns holds what client.tip holds
Tip == tipChan

ExpectedPoint(p) ==
    IF p.kind = "string" THEN MkPoint(PointTypeString, p.s, Nil)
    ELSE MkPoint(PointTypeStruct, "", [BlockNo |-> 0, ID |-> p.hash, Slot |-> p.slot])
ExpectedTip(tip) == [Slot |-> tip.slot, ID |-> tip.hash, Height |-> tip.blockNo]

\* a decoder of the shim has been run on the payload form it is written for
ShimDecoded ==
    \/ decoder = "CompatibleResultFindIntersection" /\ input.form = "result"
    \/ decoder = "CompatibleResponsePraos" /\ input.form = "envelope"

\* the find-intersection result the decoder produced, Nil if none
DecodedResult ==
    IF decoded.status # "ok" THEN Nil
    ELSE IF decoder = "CompatibleResultFindIntersection" THEN decoded.c
    ELSE IF decoded.c.Result = Nil THEN Nil
    ELSE IF decoded.c.Result.type = "ResultNextBlockPraos" THEN Nil
    ELSE decoded.c.Result.v

\* the error object the decoder produced, Nil if none
DecodedError ==
    IF decoded.status # "ok" THEN Nil
    ELSE IF decoded.c.Error # Nil THEN decoded.c.Error
    ELSE IF DecodedResult = Nil THEN Nil
    ELSE DecodedResult.Error

\* C10: a legacy "intersection found" payload with point P and tip T decodes,
\* through either decoder of the shim, to a result whose intersection is P,
\* whose tip is T (slot, id, height) and whose error is none.
C10_LegacyFoundDecodes ==
    (input.shape = "legacyFound" /\ ShimDecoded) =>
        /\ decoded.status = "ok"
        /\ DecodedResult # Nil
        /\ DecodedResult.Intersection = ExpectedPoint(input.point)
        /\ DecodedResult.Tip = ExpectedTip(input.tip)
        /\ DecodedError = Nil

\* C11: a legacy "intersection not found" payload with tip T decodes, through
\* either decoder of the shim, to an error object with code 1000 and a
\* message, whose data is the tip T of the "not found" payload itself.
C11_LegacyNotFoundDecodes ==
    (input.shape = "legacyNotFound" /\ ShimDecoded) =>
        /\ decoded.status = "ok"
        /\ DecodedError # Nil
        /\ DecodedError.Code = 1000
        /\ DecodedError.Message # ""
        /\ DecodedError.Data = ExpectedTip(input.tip)

\* the decode ended in success with a result: a find-intersection result
\* whose tip is set, or a next-block result
ResultPopulated ==
    /\ decoded.status = "ok"
    /\ \/ DecodedResult # Nil /\ DecodedResult.Tip # Nil
       \/ /\ decoder # "CompatibleResultFindIntersection"
          /\ decoded.c.Result # Nil
          /\ decoded.c.Result.type = "ResultNextBlockPraos"

\* the decode ended in success with an error object (the translated "not found")
ErrorPopulated == decoded.status = "ok" /\ DecodedError # Nil

\* C12: a decode through the shim returns (it does not crash), and returns
\* either an error or a success that carries a result or an error object;
\* for a payload of neither shape it returns an error.
C12_ShimOutcomeIsOneOfThree ==
    ShimDecoded =>
        /\ decoded.status \in {"ok", "error"}
        /\ decoded.status = "ok" => (ResultPopulated \/ ErrorPopulated)
        /\ input.shape \in {"neither", "scalar"} => decoded.status = "error"

\* C13: an envelope whose method is neither findIntersection nor nextBlock
\* makes ResponsePraos and CompatibleResponsePraos return an error and store
\* no Result.
C13_UnknownMethodFails ==
    (input.shape = "unknownMethod"
        /\ decoder \in {"ResponsePraos", "CompatibleResponsePraos"}) =>
        /\ decoded.status = "error"
        /\ decoded.c.Result = Nil

\* the method an accessor is written for
AccessorMethod ==
    IF accessed.fn = "MustFindIntersectResult" THEN FindIntersectionMethod
    ELSE NextBlockMethod

\* C19: an accessor called on a response that ResponsePraos decoded panics
\* exactly when the response's method is not the accessor's method; when the
\* methods agree it returns the result the decoder stored.
C19_AccessorFatalIffMethodDiffers ==
    accessed.fn # "none" =>
        /\ accessed.status = "panic" <=> decoded.c.Method # AccessorMethod
        /\ accessed.status = "ok" => accessed.v = decoded.c.Result.v

(* ========================== Point properties ========================== *)
\* s < t on the bytes of two strings
StringLess(str1, str2) == BytesGreater(StringBytes(str2), StringBytes(str1))

\* C16: Less ranks two structured points by descending slot, a structured
\* point before a symbolic one, and two symbolic points with the
\* lexicographically smaller string first.
C16_LessOrdersPoints ==
    fn = "Less" =>
        LET pi == args.pp[args.i]
            pj == args.pp[args.j]
        IN CASE pi.pointType = PointTypeStruct /\ pj.pointType = PointTypeStruct ->
                  (ret <=> pi.pointStruct.Slot > pj.pointStruct.Slot)
             [] pi.pointType = PointTypeStruct /\ pj.pointType = PointTypeString ->
                  ret
             [] pi.pointType = PointTypeString /\ pj.pointType = PointTypeStruct ->
                  ~ret
             [] OTHER -> (ret <=> StringLess(pi.pointString, pj.pointString))

\* C17: decoding encoded Point data and encoding the Point again succeeds
\* and gives the data back, in each of the three encodings.
C17_PointRoundTrip ==
    fn = "RoundTrip" => ret.status = "ok" /\ ret.out = args.bytes

(* ====================== value algebra properties ====================== *)
\* two asset mappings have the same keys and the same amounts
SameAssets(m1, m2) ==
    DOMAIN m1 = DOMAIN m2 /\ \A k \in DOMAIN m1 : m1[k] = m2[k]

\* x < y for the integers the two amounts stand for
NumLess(x, y) == x.hi < y.hi \/ (x.hi = y.hi /\ x.lo < y.lo)

\* C14 as stated: Subtract(Add(a, b), b) has the coin amount of a and the
\* asset mapping of a.
C14_SubtractAddIsIdentity ==
    fn = "SubtractAdd" =>
        /\ ret.Coins = args.a.Coins
        /\ SameAssets(ret.Assets, args.a.Assets)

\* C14 amended: Subtract(Add(a, b), b) has the coin amount of a and every
\* asset of a with its amount; any other key it has is a key of b alone and
\* maps to zero.
C14_SubtractAddUpToZeroEntries ==
    fn = "SubtractAdd" =>
        /\ ret.Coins = args.a.Coins
        /\ \A k \in DOMAIN args.a.Assets :
              k \in DOMAIN ret.Assets /\ ret.Assets[k] = args.a.Assets[k]
        /\ \A k \in DOMAIN ret.Assets \ DOMAIN args.a.Assets :
              k \in DOMAIN args.b.Assets /\ ret.Assets[k] = NumZero

\* a has an asset b lacks, b has an asset a lacks, and the amounts are not zero
C14_Witness ==
    /\ fn = "SubtractAdd"
    /\ DOMAIN args.a.Assets = {"X"} /\ DOMAIN args.b.Assets = {"Y"}
    /\ args.a.Assets["X"] = NumInt(1, 1) /\ args.b.Assets["Y"] = NumInt(1, 1)
    /\ args.b.Coins = NumInt(1, 1)
    /\ ret.Assets["X"] = NumInt(1, 1)

\* have covers want: the coin and every asset of want, compared as integers
Covers(have, want) ==
    /\ ~NumLess(have.Coins, want.Coins)
    /\ \A k \in DOMAIN want.Assets :
          ~NumLess(MapGet(have.Assets, k), want.Assets[k])

\* the coin or asset named is short in have
ActuallyShort(name, have, want) ==
    IF name = ADA THEN NumLess(have.Coins, want.Coins)
    ELSE /\ name \in DOMAIN want.Assets
         /\ NumLess(MapGet(have.Assets, name), want.Assets[name])

\* C15: Enough(have, want) is true exactly when have covers want, amounts of
\* any size compared as the integers they are, and when it is false the
\* error names the coin or an asset that is short.
C15_EnoughIsExact ==
    fn = "Enough" =>
        /\ ret.ok <=> Covers(args.a, args.b)
        /\ ~ret.ok => ActuallyShort(ret.short, args.a, args.b)

====
